---- MODULE Spec2Model ----
(***************************************************************************)
(* Model of functions/index.js: the callable functions that admit and      *)
(* moderate appointments (collection Citas), crearCita and actualizarCita; *)
(* the triggers and the scheduled sweep that notify clients; the callable  *)
(* functions that administer collection Escenarios; registrarDispositivo;  *)
(* and the helpers they call.  index.js assigns every export twice; the    *)
(* later assignment (lines 473-1031) is the one in force and is the one    *)
(* modelled.                                                               *)
(*                                                                         *)
(* The specifications share the variables.  Spec: the appointment          *)
(* functions.  SpecAgenda: the same, with date changes by an               *)
(* administrator.  SpecReservas: the same, with one client who books.      *)
(* SpecConcurrente: crearCita await by await.  SpecAvisos: appointments    *)
(* with the notifications they cause.  SpecMuchos: the notifications of a  *)
(* client with many devices.  SpecEscenarios: the scenario functions.      *)
(* SpecDispositivos: registrarDispositivo.                                 *)
(*                                                                         *)
(* Time is counted in ticks, TicksPerDay to a calendar day, day 0 being    *)
(* 1 January of a common year.  A handler runs as one step: every store    *)
(* read and write it awaits is part of the step.  In SpecConcurrente each  *)
(* await of crearCita is a step of its own.                                *)
(***************************************************************************)
EXTENDS Integers, Sequences, FiniteSets, TLC

VARIABLES
    citas,           \* collection Citas: sequence of documents, a document's id is its index
    ahora,           \* the server clock (new Date(), FieldValue.serverTimestamp())
    ult,             \* the last request served: entrypoint and what its caller received
    dispositivos,    \* collection Dispositivos: sequence of documents
    notificaciones,  \* collection Notificaciones: sequence of documents, in order of writing
    envios,          \* the calls made to messaging.sendEachForMulticast, in order
    escenarios,      \* collection Escenarios: sequence of documents, id is the index
    imagenes,        \* the files of the storage bucket
    peticiones       \* the requests of crearCita received, each with the await it is at

vars == <<citas, ahora, ult, dispositivos, notificaciones, envios, escenarios, imagenes,
          peticiones>>

\* what the scenario functions write
catalogo == <<escenarios, imagenes>>

\* what the appointment functions leave alone
avisos == <<dispositivos, notificaciones, envios>>

---------------------------------------------------------------------------
(* Bounds of the model *)

\* resolution of the clock: ticks in one calendar day
TicksPerDay == 2

\* capacity of collection Citas
MaxCitas == 2

---------------------------------------------------------------------------
(* Identities *)

NoAuth == "anon"                    \* context.auth is undefined
Uids == {"ana", "root"}             \* authenticated identities
Admins == {"root"}                  \* uidClient of the documents of collection Admin
Callers == Uids \cup {NoAuth}

Estados == {"espera", "aceptada", "rechazada"}

---------------------------------------------------------------------------
(* Calendar: date-fns on Date values *)

DiasMes == <<31, 28, 31, 30, 31, 30, 31, 31, 30, 31, 30, 31>>

Min(a, b) == IF a <= b THEN a ELSE b

RECURSIVE DiasAntesDe(_)
\* the days of the year before month m (1..12)
DiasAntesDe(m) == IF m = 1 THEN 0 ELSE DiasAntesDe(m - 1) + DiasMes[m - 1]

\* day number of the first day of each month
InicioMes == [m \in 1..12 |-> DiasAntesDe(m)]

\* month (1..12) of each day number
MesDe == [d \in 0..364 |-> CHOOSE m \in 1..12 : InicioMes[m] <= d /\ d < InicioMes[m] + DiasMes[m]]

\* day of the month (1..31) of day number d
DiaDelMes(d) == d - InicioMes[MesDe[d]] + 1

Instante(d, h) == d * TicksPerDay + h

\* date-fns subMonths(t, n) for n = 1: same time of day, previous month, the day
\* of the month clamped to the length of that month
SubMonths(t, n) ==
    LET d == t \div TicksPerDay
        h == t % TicksPerDay
        m == MesDe[d]
    IN  IF m = 1
        THEN Instante(d - 31, h)
        ELSE Instante(InicioMes[m - 1] + Min(DiaDelMes(d), DiasMes[m - 1]) - 1, h)

StartOfDay(t) == (t \div TicksPerDay) * TicksPerDay

\* EndOfDay that stops at the first tick of the day
EndOfDayPrimerTick(t) == StartOfDay(t)

EndOfDay(t) == StartOfDay(t) + TicksPerDay - 1

---------------------------------------------------------------------------
(* Values that arrive in a request *)

\* a field the payload does not carry
Ausente == "<ausente>"
SinInstante == -1

\* data.fecha as the client sends it: typ is its JavaScript typeof, valida and t
\* say what new Date(data.fecha) gives (a date at tick t, or Invalid Date)
FechaTexto(t) == [typ |-> "string", valida |-> TRUE, t |-> t]
FechaIlegible == [typ |-> "string", valida |-> FALSE, t |-> 0]
FechaNumero(t) == [typ |-> "number", valida |-> TRUE, t |-> t]
FechaAusente == [typ |-> "undefined", valida |-> FALSE, t |-> 0]

TypeOf(valor) == valor.typ

\* new Date(data.fecha)
NewDate(valor) == [valida |-> valor.valida, t |-> valor.t]

\* the dates a client asks for: two hours of 2 March and one of 3 March
FechasPedidas == {Instante(60, 0), Instante(60, 1), Instante(61, 0)}

FechasEntrada ==
    {FechaTexto(t) : t \in FechasPedidas}
        \cup {FechaIlegible, FechaNumero(Instante(60, 0)), FechaAusente}

\* the payload of crearCita: the date and the scenario, and either nothing else or
\* an owner, statuses and timestamps of the client's own choosing
Datos(f, propios) ==
    [fecha |-> f,
     escenario_nombre |-> "Estudio",
     uid_cliente |-> IF propios THEN "root" ELSE Ausente,
     estado_solicitud |-> IF propios THEN "aceptada" ELSE Ausente,
     estado_atendida |-> IF propios THEN "atendida" ELSE Ausente,
     createdAt |-> IF propios THEN 0 ELSE SinInstante,
     updatedAt |-> IF propios THEN 0 ELSE SinInstante]

\* every date alone, and two dates with fields of the client's own choosing
Payloads ==
    {Datos(f, FALSE) : f \in FechasEntrada}
        \cup {Datos(FechaTexto(t), TRUE) : t \in {Instante(60, 0), Instante(61, 0)}}

\* the fields of actualizarCita's data other than id: a partial document
SinCampos == [c \in {} |-> Ausente]
CamposPosibles ==
    {[estado_solicitud |-> e] : e \in Estados}
        \cup {[estado_solicitud |-> "rechazada", estado_atendida |-> "espera"],
              [estado_solicitud |-> "aceptada", updatedAt |-> 0],
              SinCampos}

\* the instants at which requests arrive: 31 January and 1 March
Reloj == {Instante(30, 0), Instante(59, 0)}

\* the ids a request names: those of the documents stored and one of no document
IdsPedidos == 1..(Len(citas) + 1)

\* the requests drawn for a caller.  One without identity is turned away before its
\* data is looked at, so one payload stands for all of them.
PayloadsDe(auth) ==
    IF auth = NoAuth THEN {Datos(FechaTexto(Instante(60, 0)), FALSE)} ELSE Payloads

IdsDe(auth) == IF auth = NoAuth THEN {1} ELSE IdsPedidos

CamposDe(auth) == IF auth = NoAuth THEN {[estado_solicitud |-> "rechazada"]} ELSE CamposPosibles

\* whether the lookup in collection Admin throws: drawn for the callers for whom
\* it changes what esAdministrador answers
FallasAdmin(auth) == IF auth \in Admins THEN BOOLEAN ELSE {FALSE}

---------------------------------------------------------------------------
(* Helpers *)

\* the outcome of a handler's try block: "ok", the code of the HttpsError it threw,
\* or "Error" for a thrown error that carries no code
Resultado(code, store, ops) == [code |-> code, citas |-> store, ops |-> ops]

\* esAdministrador that tests the snapshot, not its emptiness: true for any identity
EsAdministradorCualquiera(uid, falla) == uid # NoAuth

\* esAdministrador that answers true when the lookup throws
EsAdministradorAbierto(uid, falla) ==
    IF uid = NoAuth THEN FALSE
    ELSE IF falla THEN TRUE
    ELSE uid \in Admins

\* esAdministrador(uid); falla: the lookup in collection Admin throws
EsAdministrador(uid, falla) ==
    IF uid = NoAuth THEN FALSE
    ELSE IF falla THEN FALSE
    ELSE uid \in Admins

\* validarTipo(valor, tipo, nombreCampo): the code it throws, or "ok"
ValidarTipo(valor, tipo) ==
    IF tipo = "array"
    THEN IF TypeOf(valor) # "array" THEN "invalid-argument" ELSE "ok"
    ELSE IF TypeOf(valor) # tipo THEN "invalid-argument" ELSE "ok"

---------------------------------------------------------------------------
(* crearCita *)

UmbralRechazos == 2

\* the caller's rejected appointments created since desde
RechazosSnap(store, uid, desde) ==
    {i \in DOMAIN store :
        /\ store[i].uid_cliente = uid
        /\ store[i].estado_solicitud = "rechazada"
        /\ store[i].createdAt >= desde}

\* CitasHoySnap that leaves out the appointments that are 'rechazada'
CitasHoySnapSinRechazadas(store, uid, inicioDia, finDia) ==
    {i \in DOMAIN store :
        /\ store[i].uid_cliente = uid
        /\ store[i].fecha >= inicioDia
        /\ store[i].fecha <= finDia
        /\ store[i].estado_solicitud # "rechazada"}

\* CitasHoySnap that finds nothing
CitasHoySnapVacio(store, uid, inicioDia, finDia) == {}

\* the caller's appointments dated from inicioDia to finDia
CitasHoySnap(store, uid, inicioDia, finDia) ==
    {i \in DOMAIN store :
        /\ store[i].uid_cliente = uid
        /\ store[i].fecha >= inicioDia
        /\ store[i].fecha <= finDia}

\* NuevaCita with the payload spread last: what the client sent wins
NuevaCitaPayloadAlFinal(data, uid, fechaCita, t) ==
    [data EXCEPT !.uid_cliente = IF data.uid_cliente # Ausente THEN @ ELSE uid,
                 !.fecha = fechaCita.t,
                 !.estado_solicitud = IF data.estado_solicitud # Ausente THEN @ ELSE "espera",
                 !.estado_atendida = IF data.estado_atendida # Ausente THEN @ ELSE "espera",
                 !.createdAt = IF data.createdAt # SinInstante THEN @ ELSE t,
                 !.updatedAt = IF data.updatedAt # SinInstante THEN @ ELSE t]

\* the document crearCita adds: the payload, then the fields the server sets
NuevaCita(data, uid, fechaCita, t) ==
    [data EXCEPT !.uid_cliente = uid,
                 !.fecha = fechaCita.t,
                 !.estado_solicitud = "espera",
                 !.estado_atendida = "espera",
                 !.createdAt = t,
                 !.updatedAt = t]

\* Bloqueado with > for >=
BloqueadoMasDeUmbral(rechazosSnap) == Cardinality(rechazosSnap) > UmbralRechazos

\* whether the caller is blocked by the rejections read
Bloqueado(rechazosSnap) == Cardinality(rechazosSnap) >= UmbralRechazos

\* crearCita that adds the document before it reads the day
CrearCitaCuerpoEscribeAntes(auth, data) ==
    IF auth = NoAuth THEN Resultado("unauthenticated", citas, <<>>)
    ELSE IF ValidarTipo(data.fecha, "string") # "ok"
    THEN Resultado("invalid-argument", citas, <<>>)
    ELSE
        LET fechaCita == NewDate(data.fecha)
            unMesAtras == SubMonths(ahora, 1)
            rechazosSnap == RechazosSnap(citas, auth, unMesAtras)
        IN  IF Bloqueado(rechazosSnap)
            THEN Resultado("failed-precondition", citas, <<"rechazos">>)
            ELSE IF ~fechaCita.valida
            THEN Resultado("Error", citas, <<"rechazos">>)
            ELSE
                LET inicioDia == StartOfDay(fechaCita.t)
                    finDia == EndOfDay(fechaCita.t)
                    citasHoySnap == CitasHoySnap(citas, auth, inicioDia, finDia)
                    escrita == Append(citas, NuevaCita(data, auth, fechaCita, ahora))
                IN  IF citasHoySnap # {}
                    THEN Resultado("already-exists", escrita, <<"rechazos", "add", "citasHoy">>)
                    ELSE Resultado("ok", escrita, <<"rechazos", "add", "citasHoy">>)

\* crearCita with the query of the day before the query of the rejections
CrearCitaCuerpoDiaPrimero(auth, data) ==
    IF auth = NoAuth THEN Resultado("unauthenticated", citas, <<>>)
    ELSE IF ValidarTipo(data.fecha, "string") # "ok"
    THEN Resultado("invalid-argument", citas, <<>>)
    ELSE
        LET fechaCita == NewDate(data.fecha)
            unMesAtras == SubMonths(ahora, 1)
            rechazosSnap == RechazosSnap(citas, auth, unMesAtras)
        IN  IF ~fechaCita.valida
            THEN Resultado("Error", citas, <<>>)
            ELSE
                LET inicioDia == StartOfDay(fechaCita.t)
                    finDia == EndOfDay(fechaCita.t)
                    citasHoySnap == CitasHoySnap(citas, auth, inicioDia, finDia)
                IN  IF citasHoySnap # {}
                    THEN Resultado("already-exists", citas, <<"citasHoy">>)
                    ELSE IF Bloqueado(rechazosSnap)
                    THEN Resultado("failed-precondition", citas, <<"citasHoy", "rechazos">>)
                    ELSE Resultado("ok",
                                   Append(citas, NuevaCita(data, auth, fechaCita, ahora)),
                                   <<"citasHoy", "rechazos", "add">>)

\* the try block of crearCita
CrearCitaCuerpo(auth, data) ==
    IF auth = NoAuth THEN Resultado("unauthenticated", citas, <<>>)
    ELSE IF ValidarTipo(data.fecha, "string") # "ok"
    THEN Resultado("invalid-argument", citas, <<>>)
    ELSE
        LET fechaCita == NewDate(data.fecha)
            unMesAtras == SubMonths(ahora, 1)
            rechazosSnap == RechazosSnap(citas, auth, unMesAtras)
        IN  IF Bloqueado(rechazosSnap)
            THEN Resultado("failed-precondition", citas, <<"rechazos">>)
            ELSE IF ~fechaCita.valida
            \* startOfDay(Invalid Date) is Invalid Date, which the store's client
            \* refuses to turn into a Timestamp: it throws an Error without code
            THEN Resultado("Error", citas, <<"rechazos">>)
            ELSE
                LET inicioDia == StartOfDay(fechaCita.t)
                    finDia == EndOfDay(fechaCita.t)
                    citasHoySnap == CitasHoySnap(citas, auth, inicioDia, finDia)
                IN  IF citasHoySnap # {}
                    THEN Resultado("already-exists", citas, <<"rechazos", "citasHoy">>)
                    ELSE Resultado("ok",
                                   Append(citas, NuevaCita(data, auth, fechaCita, ahora)),
                                   <<"rechazos", "citasHoy", "add">>)

\* the catch of crearCita as actualizarCita has it
CatchCrearCitaInterno(code) == IF code = "ok" THEN "ok" ELSE "internal"

\* the catch of crearCita: new HttpsError(error.code || 'internal', error.message)
CatchCrearCita(code) == IF code = "Error" THEN "internal" ELSE code

\* what the caller of crearCita receives
CrearCitaRes(auth, data) == CatchCrearCita(CrearCitaCuerpo(auth, data).code)

Llamada(op, res) == [op |-> op, res |-> res]

CrearCita(auth, data) ==
    LET r == CrearCitaCuerpo(auth, data)
    IN  /\ Len(r.citas) <= MaxCitas
        /\ citas' = r.citas
        /\ ult' = Llamada("crearCita", CatchCrearCita(r.code))
        /\ UNCHANGED <<ahora, avisos, catalogo, peticiones>>

---------------------------------------------------------------------------
(* actualizarCita *)

\* docRef.update(campos): the fields given replace the stored ones
Update(doc, campos) ==
    [f \in DOMAIN doc \cup DOMAIN campos |->
        IF f \in DOMAIN campos THEN campos[f] ELSE doc[f]]

\* CamposAdmin with updatedAt first: the fields given win
CamposAdminSinRefresco(campos, t) ==
    [f \in DOMAIN campos \cup {"updatedAt"} |->
        IF f \in DOMAIN campos THEN campos[f] ELSE t]

\* what an administrator's call writes: the fields given, then updatedAt
CamposAdmin(campos, t) ==
    [f \in DOMAIN campos \cup {"updatedAt"} |->
        IF f = "updatedAt" THEN t ELSE campos[f]]

\* what the owner's cancellation writes
CamposCliente(t) == [estado_solicitud |-> "rechazada", updatedAt |-> t]

\* the owner may only cancel: one field, estado_solicitud 'rechazada'
SoloCancela(campos) ==
    /\ Cardinality(DOMAIN campos) = 1
    /\ "estado_solicitud" \in DOMAIN campos
    /\ campos.estado_solicitud = "rechazada"

\* ActualizarCitaEn that lets the owner cancel only an appointment that is not
\* 'rechazada' yet
ActualizarCitaEnUnaVez(store, t, auth, id, campos, adminFalla) ==
    IF auth = NoAuth
    THEN Resultado("Error", store, <<>>)
    ELSE
        LET isAdmin == EsAdministrador(auth, adminFalla)
        IN  IF id \notin DOMAIN store
            THEN Resultado("not-found", store, <<"admin", "get">>)
            ELSE IF isAdmin
            THEN Resultado("ok",
                           [store EXCEPT ![id] = Update(@, CamposAdmin(campos, t))],
                           <<"admin", "get", "update">>)
            ELSE IF store[id].uid_cliente # auth
            THEN Resultado("permission-denied", store, <<"admin", "get">>)
            ELSE IF SoloCancela(campos) /\ store[id].estado_solicitud # "rechazada"
            THEN Resultado("ok",
                           [store EXCEPT ![id] = Update(@, CamposCliente(t))],
                           <<"admin", "get", "update">>)
            ELSE Resultado("permission-denied", store, <<"admin", "get">>)

\* the try block of actualizarCita, run at instant t on collection store
ActualizarCitaEn(store, t, auth, id, campos, adminFalla) ==
    IF auth = NoAuth
    \* context.auth.uid of an undefined context.auth: a TypeError
    THEN Resultado("Error", store, <<>>)
    ELSE
        LET isAdmin == EsAdministrador(auth, adminFalla)
        IN  IF id \notin DOMAIN store
            THEN Resultado("not-found", store, <<"admin", "get">>)
            ELSE IF isAdmin
            THEN Resultado("ok",
                           [store EXCEPT ![id] = Update(@, CamposAdmin(campos, t))],
                           <<"admin", "get", "update">>)
            ELSE IF store[id].uid_cliente # auth
            THEN Resultado("permission-denied", store, <<"admin", "get">>)
            ELSE IF SoloCancela(campos)
            THEN Resultado("ok",
                           [store EXCEPT ![id] = Update(@, CamposCliente(t))],
                           <<"admin", "get", "update">>)
            ELSE Resultado("permission-denied", store, <<"admin", "get">>)

\* the try block of actualizarCita on the collection as it is now
ActualizarCitaCuerpo(auth, id, campos, adminFalla) ==
    ActualizarCitaEn(citas, ahora, auth, id, campos, adminFalla)

\* the catch of actualizarCita: new HttpsError('internal', error.message)
CatchActualizarCita(code) == IF code = "ok" THEN "ok" ELSE "internal"

\* what the caller of actualizarCita receives
ActualizarCitaRes(auth, id, campos, adminFalla) ==
    CatchActualizarCita(ActualizarCitaCuerpo(auth, id, campos, adminFalla).code)

ActualizarCita(auth, id, campos, adminFalla) ==
    LET r == ActualizarCitaCuerpo(auth, id, campos, adminFalla)
    IN  /\ citas' = r.citas
        /\ ult' = Llamada("actualizarCita", CatchActualizarCita(r.code))
        /\ UNCHANGED <<ahora, avisos, catalogo, peticiones>>

---------------------------------------------------------------------------
(* The clock and the specification *)

\* time passes between two requests
Tick(t) ==
    /\ t > ahora
    /\ ahora' = t
    /\ ult' = Llamada("tick", "ok")
    /\ UNCHANGED <<citas, avisos, catalogo, peticiones>>

Init ==
    /\ citas = <<>>
    /\ ahora = Instante(30, 0)
    /\ ult = Llamada("init", "ok")
    /\ dispositivos = <<>>
    /\ notificaciones = <<>>
    /\ envios = <<>>
    /\ escenarios = <<>>
    /\ imagenes = {}
    /\ peticiones = <<>>

Next ==
    \/ \E auth \in Callers : \E data \in PayloadsDe(auth) : CrearCita(auth, data)
    \/ \E auth \in Callers :
          \E id \in IdsDe(auth), campos \in CamposDe(auth), adminFalla \in FallasAdmin(auth) :
              ActualizarCita(auth, id, campos, adminFalla)
    \/ \E t \in Reloj : Tick(t)

Spec == Init /\ [][Next]_vars

---------------------------------------------------------------------------
(* Properties of crearCita and actualizarCita.  Each is stated for every    *)
(* request that can arrive in the current state.                            *)

\* payloads that ask for a date
PayloadsConFecha == {data \in Payloads : TypeOf(data.fecha) = "string" /\ data.fecha.valida}

\* the caller's appointments on the calendar day of t
MismoDia(uid, t) ==
    {i \in DOMAIN citas :
        /\ citas[i].uid_cliente = uid
        /\ citas[i].fecha \div TicksPerDay = t \div TicksPerDay}

\* the caller's rejected appointments created in the calendar month before now
RechazosDelMes(uid) ==
    LET desde == SubMonths(ahora, 1)
    IN  {i \in DOMAIN citas :
            /\ citas[i].uid_cliente = uid
            /\ citas[i].estado_solicitud = "rechazada"
            /\ citas[i].createdAt >= desde
            /\ citas[i].createdAt <= ahora}

\* the caller's rejected appointments created in the last 30 days
RechazosTreintaDias(uid) ==
    {i \in DOMAIN citas :
        /\ citas[i].uid_cliente = uid
        /\ citas[i].estado_solicitud = "rechazada"
        /\ citas[i].createdAt > ahora - 30 * TicksPerDay
        /\ citas[i].createdAt <= ahora}

\* C1, as stated: a caller with 2 or more rejected appointments created in the last
\* 30 days gets failed-precondition for every date asked, and nothing is added
C1_TreintaDias ==
    \A auth \in Uids, data \in PayloadsConFecha :
        Cardinality(RechazosTreintaDias(auth)) >= 2 =>
            /\ CrearCitaRes(auth, data) = "failed-precondition"
            /\ CrearCitaCuerpo(auth, data).citas = citas

\* C1, amended: a caller with 2 or more rejected appointments created since the same
\* day and hour of the previous calendar month (subMonths(now, 1), inclusive) gets
\* failed-precondition for every date asked, and nothing is added
C1_Bloqueo ==
    \A auth \in Uids, data \in PayloadsConFecha :
        Cardinality(RechazosDelMes(auth)) >= 2 =>
            /\ CrearCitaRes(auth, data) = "failed-precondition"
            /\ CrearCitaCuerpo(auth, data).citas = citas

C1_Witness ==
    /\ ult = Llamada("crearCita", "failed-precondition")
    /\ Cardinality(RechazosDelMes("ana")) >= 2

NuevaAceptada(store) ==
    \E i \in DOMAIN store :
        /\ store[i].estado_solicitud = "aceptada"
        /\ i \in DOMAIN citas => citas[i].estado_solicitud # "aceptada"

\* C3: no crearCita, and no actualizarCita of a caller who is no administrator (or
\* whose membership lookup fails), leaves an appointment 'aceptada' that was not
C3_SoloAdminAcepta ==
    /\ \A auth \in Callers, data \in Payloads :
          ~NuevaAceptada(CrearCitaCuerpo(auth, data).citas)
    /\ \A auth \in Callers :
          \A adminFalla \in FallasAdmin(auth) :
              (auth \notin Admins \/ adminFalla) =>
                  \A id \in IdsPedidos, campos \in CamposPosibles :
                      ~NuevaAceptada(ActualizarCitaCuerpo(auth, id, campos, adminFalla).citas)

C3_Witness ==
    /\ ult = Llamada("actualizarCita", "ok")
    /\ \E i \in DOMAIN citas :
          /\ citas[i].estado_solicitud = "aceptada"
          /\ citas[i].uid_cliente = "ana"

\* C4: actualizarCita of an existing appointment by a caller who is neither an
\* administrator nor its owner gets permission-denied and changes nothing
C4_AjenoDenegado ==
    \A auth \in Uids \ Admins, id \in DOMAIN citas, campos \in CamposPosibles,
       adminFalla \in BOOLEAN :
        citas[id].uid_cliente # auth =>
            /\ ActualizarCitaRes(auth, id, campos, adminFalla) = "permission-denied"
            /\ ActualizarCitaCuerpo(auth, id, campos, adminFalla).citas = citas

\* the fields that differ between two documents
Difieren(a, b) == {f \in DOMAIN a \cup DOMAIN b : f \notin DOMAIN a \/ f \notin DOMAIN b \/ a[f] # b[f]}

\* C5: for the owner who is no administrator, actualizarCita succeeds iff the fields
\* are exactly {estado_solicitud: 'rechazada'}, any other field set gets
\* permission-denied, and a success writes only estado_solicitud and updatedAt
C5_DuenoSoloCancela ==
    \A auth \in Uids \ Admins, id \in DOMAIN citas, campos \in CamposPosibles,
       adminFalla \in BOOLEAN :
        citas[id].uid_cliente = auth =>
            LET r == ActualizarCitaCuerpo(auth, id, campos, adminFalla)
                res == ActualizarCitaRes(auth, id, campos, adminFalla)
            IN  IF campos = [estado_solicitud |-> "rechazada"]
                THEN /\ res = "ok"
                     /\ Difieren(r.citas[id], citas[id]) \subseteq {"estado_solicitud", "updatedAt"}
                     /\ r.citas[id].estado_solicitud = "rechazada"
                     /\ r.citas[id].updatedAt = ahora
                ELSE /\ res = "permission-denied"
                     /\ r.citas = citas

\* C6: for an administrator, actualizarCita of an existing appointment with any
\* non-empty field set succeeds, stores the fields given and sets updatedAt to now
C6_AdminActualiza ==
    \A auth \in Admins, id \in DOMAIN citas, campos \in CamposPosibles \ {SinCampos} :
        LET r == ActualizarCitaCuerpo(auth, id, campos, FALSE)
        IN  /\ ActualizarCitaRes(auth, id, campos, FALSE) = "ok"
            /\ DOMAIN r.citas = DOMAIN citas
            /\ \A j \in DOMAIN citas : j # id => r.citas[j] = citas[j]
            /\ DOMAIN r.citas[id] = DOMAIN citas[id] \cup DOMAIN campos
            /\ \A f \in DOMAIN r.citas[id] :
                  r.citas[id][f] =
                      IF f = "updatedAt" THEN ahora
                      ELSE IF f \in DOMAIN campos THEN campos[f]
                      ELSE citas[id][f]

C6_Witness ==
    /\ ult = Llamada("actualizarCita", "ok")
    /\ \E i \in DOMAIN citas :
          /\ citas[i].updatedAt = ahora
          /\ citas[i].createdAt < ahora
          /\ citas[i].estado_solicitud = "aceptada"

\* C7: actualizarCita of an id that no appointment has gets not-found, whoever
\* calls, and writes nothing
C7_NoEncontrada ==
    \A auth \in Callers, id \in IdsPedidos \ DOMAIN citas, campos \in CamposPosibles,
       adminFalla \in BOOLEAN :
        /\ ActualizarCitaRes(auth, id, campos, adminFalla) = "not-found"
        /\ ActualizarCitaCuerpo(auth, id, campos, adminFalla).citas = citas

\* C8: crearCita without an authenticated identity gets unauthenticated before any
\* query or write of the store
C8_SinIdentidad ==
    \A data \in Payloads :
        /\ CrearCitaRes(NoAuth, data) = "unauthenticated"
        /\ CrearCitaCuerpo(NoAuth, data).ops = <<>>
        /\ CrearCitaCuerpo(NoAuth, data).citas = citas

C8_Witness ==
    /\ ult = Llamada("crearCita", "unauthenticated")
    /\ citas # <<>>

\* C9: crearCita by an authenticated caller whose payload has no date that can be
\* read (absent, not a string, or a string that is no date) gets invalid-argument
\* and adds nothing
C9_FechaInvalida ==
    \A auth \in Uids, data \in Payloads \ PayloadsConFecha :
        /\ CrearCitaRes(auth, data) = "invalid-argument"
        /\ CrearCitaCuerpo(auth, data).citas = citas

\* C10: the appointment a successful crearCita adds has estado_solicitud and
\* estado_atendida 'espera' and the caller as uid_cliente, whatever the payload held
C10_CitaNueva ==
    \A auth \in Callers, data \in Payloads :
        LET r == CrearCitaCuerpo(auth, data)
        IN  CatchCrearCita(r.code) = "ok" =>
                /\ Len(r.citas) = Len(citas) + 1
                /\ r.citas[Len(r.citas)].estado_solicitud = "espera"
                /\ r.citas[Len(r.citas)].estado_atendida = "espera"
                /\ r.citas[Len(r.citas)].uid_cliente = auth
                /\ auth # NoAuth

C10_Witness ==
    /\ ult = Llamada("crearCita", "ok")
    /\ citas # <<>>
    /\ citas[Len(citas)].uid_cliente = "ana"
    /\ citas[Len(citas)].estado_solicitud = "espera"
    /\ citas[Len(citas)].createdAt = ahora

---------------------------------------------------------------------------
(* Terminal request-statuses *)

\* C12: no call by the owner who is no administrator changes a stored field of an
\* appointment of theirs that is 'rechazada'
C12_RechazadaTerminal ==
    \A auth \in Uids \ Admins, id \in DOMAIN citas :
        (citas[id].uid_cliente = auth /\ citas[id].estado_solicitud = "rechazada") =>
            /\ \A campos \in CamposPosibles :
                  ActualizarCitaCuerpo(auth, id, campos, FALSE).citas[id] = citas[id]
            /\ \A data \in Payloads : CrearCitaCuerpo(auth, data).citas[id] = citas[id]

\* C13: no call by a caller who is no administrator (the owner included, and an
\* administrator whose membership lookup fails) changes the request-status of an
\* appointment that is 'aceptada'
C13_AceptadaTerminal ==
    \A auth \in Callers, id \in DOMAIN citas :
        \A adminFalla \in FallasAdmin(auth) :
            (~EsAdministrador(auth, adminFalla) /\ citas[id].estado_solicitud = "aceptada") =>
                /\ \A campos \in CamposPosibles :
                      ActualizarCitaCuerpo(auth, id, campos, adminFalla).citas[id].estado_solicitud
                          = "aceptada"
                /\ \A data \in Payloads :
                      CrearCitaCuerpo(auth, data).citas[id].estado_solicitud = "aceptada"

---------------------------------------------------------------------------
(* Devices and notifications *)

\* capacity of collection Notificaciones and of the log of push calls
MaxAvisos == 1

\* a document of collection Dispositivos
Dispositivo(uid, token, activo) ==
    [uid_usuario |-> uid, token_fcm |-> token, activo |-> activo]

\* a token_fcm that is empty
SinToken == ""

\* the contents of collection Dispositivos: two active devices and an inactive one
\* of ana and one of root; only an inactive device of ana; an active device of ana
\* without token and one of root
DispositivosPosibles ==
    {<<Dispositivo("ana", "t1", TRUE), Dispositivo("ana", "t2", TRUE),
       Dispositivo("ana", "t3", FALSE), Dispositivo("root", "t4", TRUE)>>,
     <<Dispositivo("ana", "t3", FALSE)>>,
     <<Dispositivo("ana", SinToken, TRUE), Dispositivo("root", "t4", TRUE)>>}

\* devices.docs.map(d => d.data().token_fcm).filter(t => t)
Tokens(devices) ==
    LET todos == [i \in DOMAIN devices |-> devices[i].token_fcm]
        ConToken(t) == t # SinToken
    IN  SelectSeq(todos, ConToken)

\* DispositivosActivosDe without the test of activo
DispositivosActivosDeTodos(uid) ==
    LET EsDe(d) == d.uid_usuario = uid
    IN  SelectSeq(dispositivos, EsDe)

\* Dispositivos.where('uid_usuario', '==', uid).where('activo', '==', true)
DispositivosActivosDe(uid) ==
    LET EsDe(d) == d.uid_usuario = uid /\ d.activo
    IN  SelectSeq(dispositivos, EsDe)

\* Dispositivos.where('uid_usuario', '==', uid)
DispositivosDe(uid) ==
    LET EsDe(d) == d.uid_usuario = uid
    IN  SelectSeq(dispositivos, EsDe)

\* the text of a notification: the sentence used and the scenario it names
Mensaje(plantilla, escenario) == [plantilla |-> plantilla, escenario |-> escenario]

\* guardarNotificacion: the documents it adds to Notificaciones; a failure of the
\* store is logged and nothing is added
GuardarNotificacion(uid, titulo, tipo, mensaje, falla) ==
    IF falla THEN <<>>
    ELSE <<[uid_usuario |-> uid, titulo |-> titulo, tipo |-> tipo,
            mensaje |-> mensaje, createdAt |-> ahora]>>

\* the argument of one call of messaging.sendEachForMulticast
Envio(tokens, title, body) == [tokens |-> tokens, title |-> title, body |-> body]

\* what a run of a trigger or of the sweep did: how it ended, the documents it
\* added to Notificaciones and the push calls it made
Efecto(code, docs, llamadas) == [code |-> code, notificaciones |-> docs, envios |-> llamadas]

---------------------------------------------------------------------------
(* notificarCambioCita: the trigger on an update of a document of Citas *)

\* newData.escenario_nombre || "Cita"
TituloDe(newData) ==
    IF newData.escenario_nombre \in {Ausente, ""} THEN "Cita" ELSE newData.escenario_nombre

\* PlantillaDe that announces every request-status
PlantillaDeCualquiera(estado) ==
    IF estado = "aceptada" THEN "confirmada"
    ELSE IF estado = "rechazada" THEN "rechazada"
    ELSE "espera"

\* the request-statuses whose arrival is announced, and the sentence of each
PlantillaDe(estado) ==
    IF estado = "aceptada" THEN "confirmada"
    ELSE IF estado = "rechazada" THEN "rechazada"
    ELSE Ausente

\* the body of the trigger, run on the document before and after the update;
\* guardarFalla: the store refuses the notification; envioFalla: the gateway throws
NotificarCambioCitaCuerpo(oldData, newData, guardarFalla, envioFalla) ==
    IF newData.estado_solicitud = oldData.estado_solicitud
    THEN Efecto("ok", <<>>, <<>>)
    ELSE
        LET uid == newData.uid_cliente
            titulo == TituloDe(newData)
            tipo == "Confirmación"
            plantilla == PlantillaDe(newData.estado_solicitud)
            mensaje == Mensaje(plantilla, titulo)
        IN  IF plantilla = Ausente
            THEN Efecto("ok", <<>>, <<>>)
            ELSE
                LET docs == GuardarNotificacion(uid, titulo, tipo, mensaje, guardarFalla)
                    tokens == Tokens(DispositivosActivosDe(uid))
                IN  IF Len(tokens) > 0
                    THEN Efecto(IF envioFalla THEN "Error" ELSE "ok",
                                docs, <<Envio(tokens, titulo, mensaje)>>)
                    ELSE Efecto("ok", docs, <<>>)

\* NotificarCambioCita that undoes the update when the run of the trigger fails
NotificarCambioCitaConRetroceso(auth, id, campos, adminFalla, guardarFalla, envioFalla) ==
    LET r == ActualizarCitaCuerpo(auth, id, campos, adminFalla)
        e == NotificarCambioCitaCuerpo(citas[id], r.citas[id], guardarFalla, envioFalla)
    IN  /\ id \in DOMAIN citas
        /\ r.code = "ok"
        /\ Len(notificaciones) + Len(e.notificaciones) <= MaxAvisos
        /\ Len(envios) + Len(e.envios) <= MaxAvisos
        /\ citas' = IF e.code = "ok" THEN r.citas ELSE citas
        /\ notificaciones' = notificaciones \o e.notificaciones
        /\ envios' = envios \o e.envios
        /\ ult' = Llamada("notificarCambioCita", e.code)
        /\ UNCHANGED <<ahora, dispositivos, catalogo, peticiones>>

\* an update that actualizarCita commits, and the run of the trigger it fires
NotificarCambioCita(auth, id, campos, adminFalla, guardarFalla, envioFalla) ==
    LET r == ActualizarCitaCuerpo(auth, id, campos, adminFalla)
        e == NotificarCambioCitaCuerpo(citas[id], r.citas[id], guardarFalla, envioFalla)
    IN  /\ id \in DOMAIN citas
        /\ r.code = "ok"
        /\ Len(notificaciones) + Len(e.notificaciones) <= MaxAvisos
        /\ Len(envios) + Len(e.envios) <= MaxAvisos
        /\ citas' = r.citas
        /\ notificaciones' = notificaciones \o e.notificaciones
        /\ envios' = envios \o e.envios
        /\ ult' = Llamada("notificarCambioCita", e.code)
        /\ UNCHANGED <<ahora, dispositivos, catalogo, peticiones>>

---------------------------------------------------------------------------
(* recordatorioDiario: the scheduled sweep *)

\* days the sweep looks ahead
DiasRecordatorio == 2

\* what Notificaciones and the log of push calls hold at most after a run of the sweep
MaxRecordatorios == 2

\* addDays(t, n)
AddDays(t, n) == t + n * TicksPerDay

\* CitasSnap that leaves out the appointments of a client who has a reminder on
\* record
CitasSnapSinRecordadas(hoy, limite) ==
    {i \in DOMAIN citas :
        /\ citas[i].fecha >= hoy
        /\ citas[i].fecha <= limite
        /\ citas[i].estado_solicitud = "aceptada"
        /\ \A k \in DOMAIN notificaciones :
              ~(/\ notificaciones[k].tipo = "recordatorio"
                /\ notificaciones[k].uid_usuario = citas[i].uid_cliente)}

\* CitasSnap without the test of estado_solicitud
CitasSnapSinEstado(hoy, limite) ==
    {i \in DOMAIN citas :
        /\ citas[i].fecha >= hoy
        /\ citas[i].fecha <= limite}

\* Citas.where('fecha', '>=', hoy).where('fecha', '<=', limite)
\*      .where('estado_solicitud', '==', 'aceptada'): the ids that match
CitasSnap(hoy, limite) ==
    {i \in DOMAIN citas :
        /\ citas[i].fecha >= hoy
        /\ citas[i].fecha <= limite
        /\ citas[i].estado_solicitud = "aceptada"}

RECURSIVE PorFecha(_)
\* the documents of a query with a range on fecha come ordered by fecha, then id
PorFecha(ids) ==
    IF ids = {} THEN <<>>
    ELSE LET primero == CHOOSE i \in ids :
                           \A j \in ids : \/ citas[i].fecha < citas[j].fecha
                                           \/ (citas[i].fecha = citas[j].fecha /\ i <= j)
         IN  <<primero>> \o PorFecha(ids \ {primero})

RECURSIVE Recordar(_, _, _)
\* the loop over citasSnap.docs; a send that throws ends the sweep
Recordar(docs, guardarFalla, envioFalla) ==
    IF docs = <<>> THEN Efecto("ok", <<>>, <<>>)
    ELSE
        LET cita == citas[Head(docs)]
            uid == cita.uid_cliente
            escenario == cita.escenario_nombre
            tokens == Tokens(DispositivosDe(uid))
            bodyMsg == Mensaje("recordatorio", escenario)
            envio == Envio(tokens, "Recordatorio de Cita", bodyMsg)
        IN  IF Len(tokens) > 0
            THEN IF envioFalla
                 THEN Efecto("Error", <<>>, <<envio>>)
                 ELSE LET resto == Recordar(Tail(docs), guardarFalla, envioFalla)
                          doc == GuardarNotificacion(uid, "Recordatorio", "recordatorio",
                                                     bodyMsg, guardarFalla)
                      IN  Efecto(resto.code, doc \o resto.notificaciones,
                                 <<envio>> \o resto.envios)
            ELSE Recordar(Tail(docs), guardarFalla, envioFalla)

\* the body of the sweep
RecordatorioDiarioCuerpo(guardarFalla, envioFalla) ==
    LET hoy == StartOfDay(ahora)
        limite == EndOfDay(AddDays(hoy, DiasRecordatorio))
    IN  Recordar(PorFecha(CitasSnap(hoy, limite)), guardarFalla, envioFalla)

RecordatorioDiario(guardarFalla, envioFalla) ==
    LET e == RecordatorioDiarioCuerpo(guardarFalla, envioFalla)
    IN  /\ Len(notificaciones) + Len(e.notificaciones) <= MaxRecordatorios
        /\ Len(envios) + Len(e.envios) <= MaxRecordatorios
        /\ notificaciones' = notificaciones \o e.notificaciones
        /\ envios' = envios \o e.envios
        /\ ult' = Llamada("recordatorioDiario", e.code)
        /\ UNCHANGED <<citas, ahora, dispositivos, catalogo, peticiones>>

---------------------------------------------------------------------------
(* Appointments with their notifications *)

\* the clients who book
Clientes == Uids \ Admins

\* the day of the sweep, 28 February, and the dates asked for: the evening before,
\* the last tick of the last day the sweep looks at, and the day after that
HoyAvisos == Instante(58, 0)
PayloadsAvisos ==
    {Datos(FechaTexto(t), FALSE) :
        t \in {Instante(57, 1), Instante(60, TicksPerDay - 1), Instante(61, 0)}}

\* the updates sent: a request-status, or the scenario's name again
CamposAvisos ==
    {[estado_solicitud |-> e] : e \in Estados} \cup {[escenario_nombre |-> "Estudio"]}

InitAvisos ==
    /\ citas = <<>>
    /\ ahora = HoyAvisos
    /\ ult = Llamada("init", "ok")
    /\ dispositivos \in DispositivosPosibles
    /\ notificaciones = <<>>
    /\ envios = <<>>
    /\ escenarios = <<>>
    /\ imagenes = {}
    /\ peticiones = <<>>

NextAvisos ==
    \/ \E auth \in Clientes, data \in PayloadsAvisos : CrearCita(auth, data)
    \/ \E auth \in Uids, id \in DOMAIN citas, campos \in CamposAvisos :
          \E guardarFalla \in BOOLEAN, envioFalla \in BOOLEAN :
              NotificarCambioCita(auth, id, campos, FALSE, guardarFalla, envioFalla)
    \/ \E guardarFalla \in BOOLEAN, envioFalla \in BOOLEAN :
          RecordatorioDiario(guardarFalla, envioFalla)

SpecAvisos == InitAvisos /\ [][NextAvisos]_vars

---------------------------------------------------------------------------
(* Properties of the notifications.  Each is stated for every update that  *)
(* actualizarCita can commit, and every run of the sweep, in the current   *)
(* state.                                                                  *)

\* the fields an update may carry
CamposDeCambio == CamposPosibles \cup CamposAvisos

\* the tokens of the active devices of uid that have one
TokensActivos(uid) ==
    {dispositivos[i].token_fcm : i \in
        {j \in DOMAIN dispositivos :
            /\ dispositivos[j].uid_usuario = uid
            /\ dispositivos[j].activo
            /\ dispositivos[j].token_fcm # SinToken}}

\* a request-status whose arrival is announced
Anunciado(estado) == estado \in {"aceptada", "rechazada"}

\* C14: an update whose request-status after differs from the one before and is
\* 'aceptada' or 'rechazada' adds, when the store takes the document, exactly one
\* notification, of the appointment's owner and of tipo 'Confirmación', and makes
\* at most one push call: none when the owner has no active device with a token
C14_AvisoDeCambio ==
    \A auth \in Uids, id \in DOMAIN citas, campos \in CamposDeCambio :
        \A adminFalla \in FallasAdmin(auth), envioFalla \in BOOLEAN :
            LET r == ActualizarCitaCuerpo(auth, id, campos, adminFalla)
                antes == citas[id]
                despues == r.citas[id]
                e == NotificarCambioCitaCuerpo(antes, despues, FALSE, envioFalla)
            IN  (/\ r.code = "ok"
                 /\ despues.estado_solicitud # antes.estado_solicitud
                 /\ Anunciado(despues.estado_solicitud)) =>
                    /\ Len(e.notificaciones) = 1
                    /\ e.notificaciones[1].uid_usuario = antes.uid_cliente
                    /\ e.notificaciones[1].tipo = "Confirmación"
                    /\ Len(e.envios) <= 1
                    /\ TokensActivos(antes.uid_cliente) = {} => e.envios = <<>>

C14_Witness ==
    /\ ult = Llamada("notificarCambioCita", "ok")
    /\ Len(notificaciones) = 1
    /\ notificaciones[1].uid_usuario = "ana"
    /\ notificaciones[1].mensaje.plantilla = "confirmada"
    /\ Len(envios) = 1
    /\ \E i \in DOMAIN citas :
          citas[i].estado_solicitud = "aceptada" /\ citas[i].uid_cliente = "ana"

\* C15: an update that leaves the request-status as it was, or changes it to a value
\* other than 'aceptada' and 'rechazada', adds no notification and makes no push
\* call
C15_SinAviso ==
    \A auth \in Uids, id \in DOMAIN citas, campos \in CamposDeCambio :
        \A adminFalla \in FallasAdmin(auth), guardarFalla \in BOOLEAN, envioFalla \in BOOLEAN :
            LET r == ActualizarCitaCuerpo(auth, id, campos, adminFalla)
                antes == citas[id]
                despues == r.citas[id]
                e == NotificarCambioCitaCuerpo(antes, despues, guardarFalla, envioFalla)
            IN  (/\ r.code = "ok"
                 /\ \/ despues.estado_solicitud = antes.estado_solicitud
                    \/ ~Anunciado(despues.estado_solicitud)) =>
                    /\ e.notificaciones = <<>>
                    /\ e.envios = <<>>

\* an accepted appointment was set back to 'espera': the record and the push call of
\* the acceptance are all there is
C15_Witness ==
    /\ ult = Llamada("notificarCambioCita", "ok")
    /\ Len(citas) = 1
    /\ citas[1].estado_solicitud = "espera"
    /\ Len(notificaciones) = 1
    /\ notificaciones[1].mensaje.plantilla = "confirmada"
    /\ Len(envios) = 1

\* the calendar day of an instant
DiaDe(t) == t \div TicksPerDay

\* the appointments that are 'aceptada' and dated today or in the two days after
Elegibles ==
    {i \in DOMAIN citas :
        /\ citas[i].estado_solicitud = "aceptada"
        /\ DiaDe(citas[i].fecha) >= DiaDe(ahora)
        /\ DiaDe(citas[i].fecha) <= DiaDe(ahora) + 2}

\* C18: every push call and every notification of a run of the sweep is the
\* reminder of an appointment that is 'aceptada' and dated from the start of today
\* to the end of the day two days ahead; the others cause nothing
C18_SoloAceptadasEnVentana ==
    \A guardarFalla \in BOOLEAN, envioFalla \in BOOLEAN :
        LET e == RecordatorioDiarioCuerpo(guardarFalla, envioFalla)
        IN  /\ Len(e.envios) <= Cardinality(Elegibles)
            /\ Len(e.notificaciones) <= Cardinality(Elegibles)
            /\ \A k \in DOMAIN e.envios :
                  \E i \in Elegibles :
                      /\ e.envios[k].tokens = Tokens(DispositivosDe(citas[i].uid_cliente))
                      /\ e.envios[k].body = Mensaje("recordatorio", citas[i].escenario_nombre)
            /\ \A k \in DOMAIN e.notificaciones :
                  \E i \in Elegibles :
                      /\ e.notificaciones[k].uid_usuario = citas[i].uid_cliente
                      /\ e.notificaciones[k].tipo = "recordatorio"

\* the sweep ran with an accepted appointment in its window, one outside it and one
\* in it that is not accepted: one reminder
C18_Witness ==
    /\ ult = Llamada("recordatorioDiario", "ok")
    /\ Cardinality(Elegibles) = 1
    /\ \E i \in DOMAIN citas :
          citas[i].estado_solicitud = "aceptada" /\ i \notin Elegibles
    /\ Len(envios) = 1
    /\ envios[1].body.plantilla = "recordatorio"
    /\ Len(notificaciones) = 1
    /\ notificaciones[1].tipo = "recordatorio"

\* the appointments of the sweep's window whose owner has an active device with a
\* token
ElegiblesConToken == {i \in Elegibles : TokensActivos(citas[i].uid_cliente) # {}}

\* the set of the elements of a sequence
Rango(seq) == {seq[k] : k \in DOMAIN seq}

\* C19: a run of the sweep makes one push call, with exactly the tokens of the
\* owner's active devices, and adds one notification for each appointment of its
\* window whose owner has an active device with a token, and nothing for the others
C19_UnEnvioPorCita ==
    LET e == RecordatorioDiarioCuerpo(FALSE, FALSE)
    IN  /\ Len(e.envios) = Cardinality(ElegiblesConToken)
        /\ Len(e.notificaciones) = Cardinality(ElegiblesConToken)
        /\ \A k \in DOMAIN e.envios :
              \E i \in ElegiblesConToken :
                  Rango(e.envios[k].tokens) = TokensActivos(citas[i].uid_cliente)

\* the record write and the push send of the trigger do not depend on each other's
\* failure
DisparadorIndependiente ==
    \A auth \in Uids, id \in DOMAIN citas, campos \in CamposDeCambio :
        \A guardarFalla \in BOOLEAN, envioFalla \in BOOLEAN :
            LET r == ActualizarCitaCuerpo(auth, id, campos, FALSE)
                e == NotificarCambioCitaCuerpo(citas[id], r.citas[id], guardarFalla, envioFalla)
                sinFalla == NotificarCambioCitaCuerpo(citas[id], r.citas[id], FALSE, FALSE)
            IN  r.code = "ok" =>
                    /\ e.envios = sinFalla.envios
                    /\ guardarFalla \/ e.notificaciones = sinFalla.notificaciones

\* C26: in a run of the trigger and in a run of the sweep, a record write that
\* fails leaves the push calls as they are without the failure, and a push send
\* that fails leaves the records written as they are without the failure
C26_Independientes ==
    /\ DisparadorIndependiente
    /\ \A guardarFalla \in BOOLEAN, envioFalla \in BOOLEAN :
          LET e == RecordatorioDiarioCuerpo(guardarFalla, envioFalla)
              sinFalla == RecordatorioDiarioCuerpo(FALSE, FALSE)
          IN  /\ envioFalla \/ e.envios = sinFalla.envios
              /\ guardarFalla \/ e.notificaciones = sinFalla.notificaciones

ElegiblesConDispositivo ==
    {i \in Elegibles : Tokens(DispositivosDe(citas[i].uid_cliente)) # <<>>}

\* the reminders on record
Recordatorios == {k \in DOMAIN notificaciones : notificaciones[k].tipo = "recordatorio"}

\* C29: a run of the sweep in which the store and the gateway answer makes one push
\* call and adds one record for every accepted appointment of its window whose
\* owner has a device with a token, whatever reminders are on record already
C29_SinMarca ==
    LET e == RecordatorioDiarioCuerpo(FALSE, FALSE)
    IN  /\ Len(e.envios) = Cardinality(ElegiblesConDispositivo)
        /\ Len(e.notificaciones) = Cardinality(ElegiblesConDispositivo)
        /\ \A i \in ElegiblesConDispositivo :
              \E k \in DOMAIN e.notificaciones :
                  /\ e.notificaciones[k].uid_usuario = citas[i].uid_cliente
                  /\ e.notificaciones[k].tipo = "recordatorio"
                  /\ e.notificaciones[k].mensaje = Mensaje("recordatorio", citas[i].escenario_nombre)

\* the sweep has run twice with ana's one accepted appointment in its window: two
\* reminders and two push calls
C29_Witness ==
    /\ ult = Llamada("recordatorioDiario", "ok")
    /\ Len(citas) = 1
    /\ Elegibles = {1}
    /\ Cardinality(Recordatorios) = 2
    /\ Len(envios) = 2
    /\ \A k \in DOMAIN envios : envios[k].body.plantilla = "recordatorio"

---------------------------------------------------------------------------
(* The appointment functions with an administrator who also moves dates *)

\* the fields sent to actualizarCita: those of CamposPosibles and a new date, 3 March
CamposAgenda == CamposPosibles \cup {[fecha |-> Instante(61, 0)]}

NextAgenda ==
    \/ \E auth \in Callers : \E data \in PayloadsDe(auth) : CrearCita(auth, data)
    \/ \E auth \in Uids :
          \E id \in IdsPedidos, campos \in CamposAgenda, adminFalla \in FallasAdmin(auth) :
              ActualizarCita(auth, id, campos, adminFalla)
    \/ \E t \in Reloj : Tick(t)

SpecAgenda == Init /\ [][NextAgenda]_vars

\* C11: no two appointments of one client are dated on the same calendar day
C11_UnaCitaPorDia ==
    \A i \in DOMAIN citas, j \in DOMAIN citas :
        (i # j /\ citas[i].uid_cliente = citas[j].uid_cliente) =>
            DiaDe(citas[i].fecha) # DiaDe(citas[j].fecha)

---------------------------------------------------------------------------
(* The appointment functions with one client who books *)

\* what the client sends to crearCita: the three dates, and a text that is no date
PayloadsReservas ==
    {Datos(FechaTexto(t), FALSE) : t \in FechasPedidas} \cup {Datos(FechaIlegible, FALSE)}

\* what is sent to actualizarCita: a verdict, or a new date
CamposReservas ==
    {[estado_solicitud |-> "aceptada"], [estado_solicitud |-> "rechazada"],
     [fecha |-> Instante(61, 0)]}

NextReservas ==
    \/ \E auth \in Clientes \cup {NoAuth} :
          \E data \in PayloadsDe(auth) \cap PayloadsReservas : CrearCita(auth, data)
    \/ \E auth \in Callers :
          \E id \in IdsDe(auth), campos \in CamposReservas, adminFalla \in FallasAdmin(auth) :
              ActualizarCita(auth, id, campos, adminFalla)
    \/ \E t \in Reloj : Tick(t)

SpecReservas == Init /\ [][NextReservas]_vars

---------------------------------------------------------------------------
(* Repeated and ordered requests *)

\* a document without its updatedAt
SinUpdatedAt(doc) == [f \in DOMAIN doc \ {"updatedAt"} |-> doc[f]]

\* a collection without the updatedAt of its documents
SinUpdatedAtTodas(store) == [i \in DOMAIN store |-> SinUpdatedAt(store[i])]

\* the instants of a second call: at once, or when the clock has moved on
Despues == {ahora} \cup {t \in Reloj : t > ahora}

\* C21: a call of actualizarCita made again with the same arguments, at once or
\* later, leaves every appointment as the first call left it, updatedAt apart,
\* and its caller receives what the caller of the first received
C21_Idempotente ==
    \A auth \in Callers, id \in IdsPedidos, campos \in CamposAgenda :
        \A adminFalla \in FallasAdmin(auth), t \in Despues :
            LET r1 == ActualizarCitaCuerpo(auth, id, campos, adminFalla)
                r2 == ActualizarCitaEn(r1.citas, t, auth, id, campos, adminFalla)
            IN  /\ CatchActualizarCita(r2.code) = CatchActualizarCita(r1.code)
                /\ SinUpdatedAtTodas(r2.citas) = SinUpdatedAtTodas(r1.citas)

\* the owner cancelled an appointment that was 'rechazada' already, a day after it
\* was written last
C21_Witness ==
    /\ ult = Llamada("actualizarCita", "ok")
    /\ \E i \in DOMAIN citas :
          /\ citas[i].uid_cliente = "ana"
          /\ citas[i].estado_solicitud = "rechazada"
          /\ citas[i].updatedAt = ahora
          /\ citas[i].createdAt < ahora

\* C22: crearCita reads the rejections first, the appointments of the day second
\* and writes last, each step only when the one before passed: a caller with 2 or
\* more rejections in the window and an appointment on the day asked for receives
\* failed-precondition, not already-exists, and the day is never read
C22_OrdenDeReglas ==
    \A auth \in Uids, data \in PayloadsConFecha :
        LET r == CrearCitaCuerpo(auth, data)
            res == CatchCrearCita(r.code)
        IN  /\ r.ops \in {<<"rechazos">>, <<"rechazos", "citasHoy">>,
                           <<"rechazos", "citasHoy", "add">>}
            /\ (r.ops = <<"rechazos", "citasHoy", "add">>) <=> (res = "ok")
            /\ (r.ops = <<"rechazos", "citasHoy">>) <=> (res = "already-exists")
            /\ (r.ops = <<"rechazos">>) <=> (res = "failed-precondition")
            /\ (Cardinality(RechazosDelMes(auth)) >= 2 /\ MismoDia(auth, data.fecha.t) # {}) =>
                   /\ res = "failed-precondition"
                   /\ r.citas = citas

\* ana has cancelled her appointments of 2 and 3 March and asked for one of those
\* days again
C22_Witness ==
    /\ ult = Llamada("crearCita", "failed-precondition")
    /\ Cardinality(RechazosDelMes("ana")) >= 2
    /\ \A t \in FechasPedidas : MismoDia("ana", t) # {}

\* the caller's appointments on the calendar day of t that are 'rechazada'
RechazadasDelDia(uid, t) == {i \in MismoDia(uid, t) : citas[i].estado_solicitud = "rechazada"}

\* C24, as stated: a caller who has a rejected appointment on the day asked for
\* receives already-exists
C24_CualquierEstado ==
    \A auth \in Uids, data \in PayloadsConFecha :
        RechazadasDelDia(auth, data.fecha.t) # {} =>
            CrearCitaRes(auth, data) = "already-exists"

\* C24, amended: a caller who has a rejected appointment on the day asked for adds
\* nothing; the caller receives already-exists when fewer than 2 rejections of the
\* caller fall in the window, and failed-precondition otherwise
C24_CuentaRechazadas ==
    \A auth \in Uids, data \in PayloadsConFecha :
        RechazadasDelDia(auth, data.fecha.t) # {} =>
            LET r == CrearCitaCuerpo(auth, data)
            IN  /\ r.citas = citas
                /\ CatchCrearCita(r.code) =
                       IF Cardinality(RechazosDelMes(auth)) < 2
                       THEN "already-exists" ELSE "failed-precondition"

\* ana's only appointment is 'rechazada' and her request for its day was refused
C24_Witness ==
    /\ ult = Llamada("crearCita", "already-exists")
    /\ Len(citas) = 1
    /\ citas[1].uid_cliente = "ana"
    /\ citas[1].estado_solicitud = "rechazada"

\* the failures thrown inside crearCita and actualizarCita: the codes of the
\* HttpsErrors, and "Error" for an error that carries none
Fallos == {"unauthenticated", "invalid-argument", "failed-precondition", "already-exists",
           "not-found", "permission-denied", "Error"}

\* C25: a call of crearCita or actualizarCita that ends in a failure, whichever,
\* has made no write and leaves collection Citas as it was
C25_FalloSinEscritura ==
    /\ \A auth \in Callers, data \in Payloads :
          LET r == CrearCitaCuerpo(auth, data)
          IN  /\ r.code \in Fallos \cup {"ok"}
              /\ r.code \in Fallos =>
                     /\ r.citas = citas
                     /\ \A k \in DOMAIN r.ops : r.ops[k] # "add"
              /\ r.code = "ok" => r.ops[Len(r.ops)] = "add"
    /\ \A auth \in Callers, id \in IdsPedidos, campos \in CamposAgenda :
          \A adminFalla \in FallasAdmin(auth) :
              LET r == ActualizarCitaCuerpo(auth, id, campos, adminFalla)
              IN  /\ r.code \in Fallos \cup {"ok"}
                  /\ r.code \in Fallos =>
                         /\ r.citas = citas
                         /\ \A k \in DOMAIN r.ops : r.ops[k] # "update"
                  /\ r.code = "ok" => r.ops[Len(r.ops)] = "update"

\* ana asked for a day she has an appointment on, which an administrator had moved
\* there: refused, and both appointments are as they were
C25_Witness ==
    /\ ult = Llamada("crearCita", "already-exists")
    /\ Len(citas) = 2
    /\ \A i \in DOMAIN citas :
          /\ citas[i].uid_cliente = "ana"
          /\ citas[i].fecha = Instante(61, 0)
          /\ citas[i].estado_solicitud = "espera"

---------------------------------------------------------------------------
(* crearCita await by await: requests that run at the same time *)

\* the requests of crearCita the model receives
MaxPeticiones == 2

\* a request of crearCita: who sent it and what, the instant a month before its
\* arrival, the await it is at ("rechazos", "citasHoy", "add", or "fin" when it has
\* answered), what its caller received, how many documents Citas held when it read
\* the day, and the id of the document it added
Peticion(auth, data, unMesAtras, pc, res) ==
    [auth |-> auth, data |-> data, unMesAtras |-> unMesAtras, pc |-> pc, res |-> res,
     vistas |-> 0, doc |-> 0]

\* a request arrives and runs up to its first await
Recibir(auth, data) ==
    LET unMesAtras == SubMonths(ahora, 1)
        p == IF auth = NoAuth
             THEN Peticion(auth, data, unMesAtras, "fin", "unauthenticated")
             ELSE IF ValidarTipo(data.fecha, "string") # "ok"
             THEN Peticion(auth, data, unMesAtras, "fin", "invalid-argument")
             ELSE Peticion(auth, data, unMesAtras, "rechazos", Ausente)
    IN  /\ Len(peticiones) < MaxPeticiones
        /\ peticiones' = Append(peticiones, p)
        /\ ult' = IF p.pc = "fin" THEN Llamada("crearCita", CatchCrearCita(p.res))
                  ELSE Llamada("recibir", "ok")
        /\ UNCHANGED <<citas, ahora, avisos, catalogo>>

\* the query of the rejections answers request k
LeerRechazos(k) ==
    LET p == peticiones[k]
        rechazosSnap == RechazosSnap(citas, p.auth, p.unMesAtras)
        q == IF Bloqueado(rechazosSnap)
             THEN [p EXCEPT !.pc = "fin", !.res = "failed-precondition"]
             ELSE [p EXCEPT !.pc = "citasHoy"]
    IN  /\ p.pc = "rechazos"
        /\ peticiones' = [peticiones EXCEPT ![k] = q]
        /\ ult' = IF q.pc = "fin" THEN Llamada("crearCita", CatchCrearCita(q.res))
                  ELSE Llamada("leerRechazos", "ok")
        /\ UNCHANGED <<citas, ahora, avisos, catalogo>>

\* the query of the day answers request k
LeerCitasHoy(k) ==
    LET p == peticiones[k]
        fechaCita == NewDate(p.data.fecha)
        citasHoySnap == CitasHoySnap(citas, p.auth, StartOfDay(fechaCita.t), EndOfDay(fechaCita.t))
        q == IF ~fechaCita.valida
             THEN [p EXCEPT !.pc = "fin", !.res = "Error"]
             ELSE IF citasHoySnap # {}
             THEN [p EXCEPT !.pc = "fin", !.res = "already-exists", !.vistas = Len(citas)]
             ELSE [p EXCEPT !.pc = "add", !.vistas = Len(citas)]
    IN  /\ p.pc = "citasHoy"
        /\ peticiones' = [peticiones EXCEPT ![k] = q]
        /\ ult' = IF q.pc = "fin" THEN Llamada("crearCita", CatchCrearCita(q.res))
                  ELSE Llamada("leerCitasHoy", "ok")
        /\ UNCHANGED <<citas, ahora, avisos, catalogo>>

\* the store adds the document of request k
Add(k) ==
    LET p == peticiones[k]
        nuevaCita == NuevaCita(p.data, p.auth, NewDate(p.data.fecha), ahora)
    IN  /\ p.pc = "add"
        /\ Len(citas) < MaxCitas
        /\ citas' = Append(citas, nuevaCita)
        /\ peticiones' = [peticiones EXCEPT ![k] = [p EXCEPT !.pc = "fin", !.res = "ok",
                                                             !.doc = Len(citas) + 1]]
        /\ ult' = Llamada("crearCita", "ok")
        /\ UNCHANGED <<ahora, avisos, catalogo>>

NextConcurrente ==
    \/ \E auth \in Clientes \cup {NoAuth} :
          \E data \in PayloadsDe(auth) \cap PayloadsReservas : Recibir(auth, data)
    \/ \E k \in DOMAIN peticiones : LeerRechazos(k)
    \/ \E k \in DOMAIN peticiones : LeerCitasHoy(k)
    \/ \E k \in DOMAIN peticiones : Add(k)

SpecConcurrente == Init /\ [][NextConcurrente]_vars

\* the requests that have added a document
Escritas == {k \in DOMAIN peticiones : peticiones[k].pc = "fin" /\ peticiones[k].res = "ok"}

\* C23: two requests of one client for one calendar day add a document each
\* exactly when each read the day before the other wrote; a request that reads the
\* day after the other has written adds nothing
C23_CarreraDelDia ==
    \A k \in Escritas, l \in Escritas :
        LET p == peticiones[k]
            q == peticiones[l]
        IN  (/\ p.doc < q.doc
             /\ p.auth = q.auth
             /\ DiaDe(p.data.fecha.t) = DiaDe(q.data.fecha.t)) =>
                /\ q.vistas < p.doc
                /\ citas[p.doc].uid_cliente = citas[q.doc].uid_cliente
                /\ DiaDe(citas[p.doc].fecha) = DiaDe(citas[q.doc].fecha)

\* both requests of ana for 2 March read the day while Citas was empty, and both
\* appointments are stored
C23_Witness ==
    /\ Len(citas) = 2
    /\ citas[1].uid_cliente = "ana"
    /\ citas[2].uid_cliente = "ana"
    /\ DiaDe(citas[1].fecha) = DiaDe(citas[2].fecha)
    /\ \A k \in DOMAIN peticiones : peticiones[k].res = "ok" /\ peticiones[k].vistas = 0

---------------------------------------------------------------------------
(* crearEscenario, actualizarEscenario, eliminarEscenario *)

\* capacity of collection Escenarios
MaxEscenarios == 2

\* the lookups of collection Admin that esAdministrador(uid) makes
ConsultasAdmin(uid) == IF uid = NoAuth THEN 0 ELSE 1

\* values of a payload with their JavaScript typeof
Texto(v) == [typ |-> "string", v |-> v]
Booleano(v) == [typ |-> "boolean", v |-> v]
NoDefinido == [typ |-> "undefined", v |-> Ausente]

\* a tiempo_sesion that is null, and the place of a document that was deleted
Nulo == SinInstante
SinDocumento == [borrado |-> TRUE]

\* the files uploaded to the bucket
ImagenesSubidas == {"a.jpg", "b.jpg"}

\* the payloads of crearEscenario: a scenario with a session time and an image, a
\* special scenario without image, and one that does not say whether it is special
DatosEscenario ==
    {[nombre |-> Texto("Estudio"), categoria |-> Texto("interior"),
      especial |-> Booleano(FALSE), tiempo_sesion |-> 30, img_principal |-> "a.jpg"],
     [nombre |-> Texto("Jardin"), categoria |-> Texto("exterior"),
      especial |-> Booleano(TRUE), tiempo_sesion |-> 30, img_principal |-> Ausente],
     [nombre |-> Texto("Estudio"), categoria |-> Texto("interior"),
      especial |-> NoDefinido, tiempo_sesion |-> 30, img_principal |-> Ausente]}

\* the fields of actualizarEscenario's data other than id
CamposEscenario == {[nombre |-> "Atico"], [img_principal |-> "b.jpg"], SinCampos}

\* a payload without id
SinId == 0

\* the ids a request names: none, those given out so far and one more
IdsEscenario == 0..(Len(escenarios) + 1)

\* docSnap.exists
Existe(id) == id \in DOMAIN escenarios /\ escenarios[id] # SinDocumento

\* x || ""
OVacio(x) == IF x = Ausente THEN "" ELSE x

\* the outcome of a handler's try block, with the collection and the bucket it leaves
ResultadoEsc(code, store, files) == [code |-> code, escenarios |-> store, imagenes |-> files]

\* borrarImagenStorage(url), files being the bucket
BorrarImagenStorage(files, url) == IF url \in {Ausente, ""} THEN files ELSE files \ {url}

\* the document crearEscenario adds
NuevoEscenario(data, t) ==
    [nombre |-> data.nombre.v,
     categoria |-> data.categoria.v,
     sub_categoria |-> "",
     descripcion |-> "",
     especial |-> data.especial.v,
     tiempo_sesion |-> IF data.especial.v THEN Nulo ELSE data.tiempo_sesion,
     lleva_traje |-> FALSE,
     img_principal |-> OVacio(data.img_principal),
     list_img |-> <<>>,
     createdAt |-> t,
     updatedAt |-> t]

\* the try block of crearEscenario
CrearEscenarioCuerpo(auth, data, adminFalla) ==
    IF ~EsAdministrador(auth, adminFalla)
    THEN ResultadoEsc("permission-denied", escenarios, imagenes)
    ELSE IF \/ ValidarTipo(data.nombre, "string") # "ok"
            \/ ValidarTipo(data.categoria, "string") # "ok"
            \/ ValidarTipo(data.especial, "boolean") # "ok"
    THEN ResultadoEsc("invalid-argument", escenarios, imagenes)
    ELSE ResultadoEsc("ok", Append(escenarios, NuevoEscenario(data, ahora)), imagenes)

\* the catch of crearEscenario and of actualizarEscenario: error.code || 'internal'
CatchEscenario(code) == IF code = "Error" THEN "internal" ELSE code

\* a request to a scenario function and what its caller received
LlamadaDe(op, res, auth, adminFalla) ==
    [op |-> op, res |-> res, auth |-> auth, adminFalla |-> adminFalla]

CrearEscenario(auth, data, adminFalla) ==
    LET r == CrearEscenarioCuerpo(auth, data, adminFalla)
    IN  /\ Len(r.escenarios) <= MaxEscenarios
        /\ escenarios' = r.escenarios
        /\ imagenes' = r.imagenes
        /\ ult' = LlamadaDe("crearEscenario", CatchEscenario(r.code), auth, adminFalla)
        /\ UNCHANGED <<citas, ahora, avisos, peticiones>>

\* the files actualizarEscenario deletes: the principal image when another one is
\* given, and the images of the list that the list given leaves out
ImagenesReemplazadas(oldData, campos) ==
    (IF /\ "img_principal" \in DOMAIN campos
        /\ campos.img_principal \notin {Ausente, ""}
        /\ oldData.img_principal # campos.img_principal
     THEN {oldData.img_principal} ELSE {})
    \cup
    (IF "list_img" \in DOMAIN campos
     THEN Rango(oldData.list_img) \ Rango(campos.list_img) ELSE {})

\* the try block of actualizarEscenario
ActualizarEscenarioCuerpo(auth, id, campos, adminFalla) ==
    IF ~EsAdministrador(auth, adminFalla)
    THEN ResultadoEsc("permission-denied", escenarios, imagenes)
    ELSE IF id = SinId
    THEN ResultadoEsc("invalid-argument", escenarios, imagenes)
    ELSE IF ~Existe(id)
    THEN ResultadoEsc("not-found", escenarios, imagenes)
    ELSE ResultadoEsc("ok",
                      [escenarios EXCEPT ![id] = Update(@, CamposAdmin(campos, ahora))],
                      imagenes \ (ImagenesReemplazadas(escenarios[id], campos) \ {""}))

ActualizarEscenario(auth, id, campos, adminFalla) ==
    LET r == ActualizarEscenarioCuerpo(auth, id, campos, adminFalla)
    IN  /\ escenarios' = r.escenarios
        /\ imagenes' = r.imagenes
        /\ ult' = LlamadaDe("actualizarEscenario", CatchEscenario(r.code), auth, adminFalla)
        /\ UNCHANGED <<citas, ahora, avisos, peticiones>>

\* eliminarEscenario without the test of esAdministrador
EliminarEscenarioSinPermiso(auth, id, adminFalla) ==
    IF id = SinId
    THEN ResultadoEsc("Error", escenarios, imagenes)
    ELSE IF ~Existe(id)
    THEN ResultadoEsc("ok", escenarios, imagenes)
    ELSE ResultadoEsc("ok",
                      [escenarios EXCEPT ![id] = SinDocumento],
                      BorrarImagenStorage(imagenes, escenarios[id].img_principal)
                          \ Rango(escenarios[id].list_img))

\* the try block of eliminarEscenario
EliminarEscenarioCuerpo(auth, id, adminFalla) ==
    IF ~EsAdministrador(auth, adminFalla)
    THEN ResultadoEsc("permission-denied", escenarios, imagenes)
    ELSE IF id = SinId
    \* doc(undefined) throws an Error without code
    THEN ResultadoEsc("Error", escenarios, imagenes)
    ELSE IF ~Existe(id)
    THEN ResultadoEsc("ok", escenarios, imagenes)
    ELSE ResultadoEsc("ok",
                      [escenarios EXCEPT ![id] = SinDocumento],
                      BorrarImagenStorage(imagenes, escenarios[id].img_principal)
                          \ Rango(escenarios[id].list_img))

\* the catch of eliminarEscenario: new HttpsError('internal', error.message)
CatchEliminarEscenario(code) == IF code = "ok" THEN "ok" ELSE "internal"

EliminarEscenario(auth, id, adminFalla) ==
    LET r == EliminarEscenarioCuerpo(auth, id, adminFalla)
    IN  /\ escenarios' = r.escenarios
        /\ imagenes' = r.imagenes
        /\ ult' = LlamadaDe("eliminarEscenario", CatchEliminarEscenario(r.code), auth, adminFalla)
        /\ UNCHANGED <<citas, ahora, avisos, peticiones>>

InitEscenarios ==
    /\ citas = <<>>
    /\ ahora = Instante(30, 0)
    /\ ult = LlamadaDe("init", "ok", NoAuth, FALSE)
    /\ dispositivos = <<>>
    /\ notificaciones = <<>>
    /\ envios = <<>>
    /\ escenarios = <<>>
    /\ imagenes = ImagenesSubidas
    /\ peticiones = <<>>

NextEscenarios ==
    \/ \E auth \in Callers, data \in DatosEscenario :
          \E adminFalla \in FallasAdmin(auth) : CrearEscenario(auth, data, adminFalla)
    \/ \E auth \in Callers, id \in IdsEscenario, campos \in CamposEscenario :
          \E adminFalla \in FallasAdmin(auth) :
              ActualizarEscenario(auth, id, campos, adminFalla)
    \/ \E auth \in Callers, id \in IdsEscenario :
          \E adminFalla \in FallasAdmin(auth) : EliminarEscenario(auth, id, adminFalla)

SpecEscenarios == InitEscenarios /\ [][NextEscenarios]_vars

---------------------------------------------------------------------------
(* Properties of esAdministrador and of the scenario functions *)

\* C16: esAdministrador answers false without a lookup for an absent identity,
\* answers true iff a document of Admin has the identity as uidClient when the one
\* lookup it makes succeeds, and answers false when the lookup throws
C16_EsAdministrador ==
    \A uid \in Callers, falla \in BOOLEAN :
        /\ uid = NoAuth => (~EsAdministrador(uid, falla) /\ ConsultasAdmin(uid) = 0)
        /\ (uid # NoAuth /\ ~falla) =>
               /\ EsAdministrador(uid, falla) <=> uid \in Admins
               /\ ConsultasAdmin(uid) = 1
        /\ falla => ~EsAdministrador(uid, falla)
        /\ (~EsAdministrador(uid, falla)) =>
               \A data \in DatosEscenario :
                   CrearEscenarioCuerpo(uid, data, falla).code = "permission-denied"

\* root created a scenario, then the lookup threw on root's next call: refused
C16_Witness ==
    /\ ult = LlamadaDe("crearEscenario", "permission-denied", "root", TRUE)
    /\ \E id \in DOMAIN escenarios : Existe(id)

\* C17: when the membership lookup throws, the caller of crearEscenario,
\* actualizarEscenario, eliminarEscenario and (not being the owner) actualizarCita
\* receives permission-denied and nothing is written
C17_FallaDenegada ==
    \A auth \in Uids :
        /\ \A data \in DatosEscenario :
              LET r == CrearEscenarioCuerpo(auth, data, TRUE)
              IN  /\ CatchEscenario(r.code) = "permission-denied"
                  /\ r.escenarios = escenarios
        /\ \A id \in IdsEscenario, campos \in CamposEscenario :
              LET r == ActualizarEscenarioCuerpo(auth, id, campos, TRUE)
              IN  /\ CatchEscenario(r.code) = "permission-denied"
                  /\ r.escenarios = escenarios
        /\ \A id \in IdsEscenario :
              LET r == EliminarEscenarioCuerpo(auth, id, TRUE)
              IN  /\ CatchEliminarEscenario(r.code) = "permission-denied"
                  /\ r.escenarios = escenarios
        /\ \A id \in DOMAIN citas, campos \in CamposPosibles :
              citas[id].uid_cliente # auth =>
                  /\ ActualizarCitaRes(auth, id, campos, TRUE) = "permission-denied"
                  /\ ActualizarCitaCuerpo(auth, id, campos, TRUE).citas = citas

\* C20: no call of crearEscenario, actualizarEscenario or eliminarEscenario by a
\* caller who is no administrator, without identity or with one, changes collection
\* Escenarios
C20_EscenariosSoloAdmin ==
    \A auth \in Callers, adminFalla \in BOOLEAN :
        ~EsAdministrador(auth, adminFalla) =>
            /\ \A data \in DatosEscenario :
                  CrearEscenarioCuerpo(auth, data, adminFalla).escenarios = escenarios
            /\ \A id \in IdsEscenario, campos \in CamposEscenario :
                  ActualizarEscenarioCuerpo(auth, id, campos, adminFalla).escenarios = escenarios
            /\ \A id \in IdsEscenario :
                  EliminarEscenarioCuerpo(auth, id, adminFalla).escenarios = escenarios

\* ana asked to delete a scenario that exists, and it is still there
C20_Witness ==
    /\ ult = LlamadaDe("eliminarEscenario", "internal", "ana", FALSE)
    /\ \E id \in DOMAIN escenarios : Existe(id)
    /\ imagenes = ImagenesSubidas

---------------------------------------------------------------------------
(* notificarNuevoEscenario, and a client with many devices *)

\* const batchSize = 500
BatchSize == 500

\* Dispositivos.where('activo', '==', true)
DispositivosActivos ==
    LET Activo(d) == d.activo
    IN  SelectSeq(dispositivos, Activo)

RECURSIVE Lotes(_)
\* tokens.slice(i, i + batchSize) for i = 0, batchSize, ...
Lotes(tokens) ==
    IF tokens = <<>> THEN <<>>
    ELSE <<SubSeq(tokens, 1, Min(BatchSize, Len(tokens)))>>
             \o Lotes(SubSeq(tokens, BatchSize + 1, Len(tokens)))

\* the body of the trigger on a new document of Escenarios; a send that throws
\* ends the loop
NotificarNuevoEscenarioCuerpo(escenario, envioFalla) ==
    LET tokens == Tokens(DispositivosActivos)
        lotes == Lotes(tokens)
        LlamadaDeLote(k) == Envio(lotes[k], "¡Nuevo Escenario!", Mensaje("nuevo", escenario.nombre))
    IN  IF lotes = <<>> THEN Efecto("ok", <<>>, <<>>)
        ELSE IF envioFalla THEN Efecto("Error", <<>>, <<LlamadaDeLote(1)>>)
        ELSE Efecto("ok", <<>>, [k \in DOMAIN lotes |-> LlamadaDeLote(k)])

\* capacity of the log of push calls where scenarios are announced
MaxDifusiones == 2

\* a scenario that crearEscenario adds, and the run of the trigger it fires
NotificarNuevoEscenario(auth, data, adminFalla, envioFalla) ==
    LET r == CrearEscenarioCuerpo(auth, data, adminFalla)
        e == NotificarNuevoEscenarioCuerpo(r.escenarios[Len(r.escenarios)], envioFalla)
    IN  /\ r.code = "ok"
        /\ Len(r.escenarios) <= MaxEscenarios
        /\ Len(envios) + Len(e.envios) <= MaxDifusiones
        /\ escenarios' = r.escenarios
        /\ imagenes' = r.imagenes
        /\ envios' = envios \o e.envios
        /\ ult' = Llamada("notificarNuevoEscenario", e.code)
        /\ UNCHANGED <<citas, ahora, dispositivos, notificaciones, peticiones>>

\* a client with one device more than a call of the gateway takes
DispositivosMuchos == [k \in 1..(BatchSize + 1) |-> Dispositivo("ana", ToString(k), TRUE)]

InitMuchos ==
    /\ citas = <<>>
    /\ ahora = HoyAvisos
    /\ ult = Llamada("init", "ok")
    /\ dispositivos = DispositivosMuchos
    /\ notificaciones = <<>>
    /\ envios = <<>>
    /\ escenarios = <<>>
    /\ imagenes = {}
    /\ peticiones = <<>>

NextMuchos ==
    \/ \E auth \in Clientes, data \in PayloadsAvisos : CrearCita(auth, data)
    \/ \E auth \in Uids, id \in DOMAIN citas, campos \in CamposAvisos :
          \E guardarFalla \in BOOLEAN, envioFalla \in BOOLEAN :
              NotificarCambioCita(auth, id, campos, FALSE, guardarFalla, envioFalla)
    \/ \E guardarFalla \in BOOLEAN, envioFalla \in BOOLEAN :
          RecordatorioDiario(guardarFalla, envioFalla)
    \/ \E auth \in Admins, data \in DatosEscenario, envioFalla \in BOOLEAN :
          NotificarNuevoEscenario(auth, data, FALSE, envioFalla)

SpecMuchos == InitMuchos /\ [][NextMuchos]_vars

\* the push calls that announce a scenario carry BatchSize tokens at most
DifusionEnLotes ==
    \A k \in DOMAIN envios :
        envios[k].title = "¡Nuevo Escenario!" => Len(envios[k].tokens) <= BatchSize

\* C28: every call made to messaging.sendEachForMulticast, by notificarCambioCita,
\* notificarNuevoEscenario or recordatorioDiario, carries 500 tokens at most
C28_LotesDe500 ==
    \A k \in DOMAIN envios : Len(envios[k].tokens) <= BatchSize

---------------------------------------------------------------------------
(* registrarDispositivo *)

\* uid_usuario of a device registered without identity: null
SinUsuario == "<null>"

\* the device ids, tokens and platforms that arrive; Ausente: the payload has no
\* such field
IdsDispositivo == {"d1", "d2"}
DatosDispositivo ==
    {[uid_dispositivo |-> d, token_fcm |-> t, plataforma |-> pl] :
        d \in IdsDispositivo \cup {Ausente}, t \in {"t1", "t2", Ausente},
        pl \in {"android", "ios"}}

\* the outcome of the try block, with the collection it leaves
ResultadoDisp(code, store) == [code |-> code, dispositivos |-> store]

\* the places of the document of id in store
LugarDe(store, id) == {i \in DOMAIN store : store[i].id = id}

\* SetMerge that adds a document every time
SetMergeSiempreNuevo(store, id, campos) ==
    Append(store, Update([id |-> id], campos))

\* doc(id).set(campos, { merge: true }): the fields given replace those of the
\* document of id, which is created when there is none
SetMerge(store, id, campos) ==
    IF LugarDe(store, id) = {}
    THEN Append(store, Update([id |-> id], campos))
    ELSE [i \in DOMAIN store |-> IF store[i].id = id THEN Update(store[i], campos) ELSE store[i]]

\* the try block of registrarDispositivo
RegistrarDispositivoCuerpo(auth, data) ==
    LET uid_usuario == IF auth = NoAuth THEN SinUsuario ELSE auth
    IN  IF data.uid_dispositivo = Ausente
        \* doc(undefined) throws an Error without code
        THEN ResultadoDisp("Error", dispositivos)
        ELSE IF data.token_fcm = Ausente
        \* the store's client refuses a field whose value is undefined
        THEN ResultadoDisp("Error", dispositivos)
        ELSE ResultadoDisp("ok",
                           SetMerge(dispositivos, data.uid_dispositivo,
                                    [uid_usuario |-> uid_usuario,
                                     token_fcm |-> data.token_fcm,
                                     plataforma |-> data.plataforma,
                                     activo |-> TRUE,
                                     updatedAt |-> ahora]))

\* the catch of registrarDispositivo: new HttpsError('internal', error.message)
CatchRegistrarDispositivo(code) == IF code = "ok" THEN "ok" ELSE "internal"

RegistrarDispositivo(auth, data) ==
    LET r == RegistrarDispositivoCuerpo(auth, data)
    IN  /\ dispositivos' = r.dispositivos
        /\ ult' = Llamada("registrarDispositivo", CatchRegistrarDispositivo(r.code))
        /\ UNCHANGED <<citas, ahora, notificaciones, envios, catalogo, peticiones>>

\* Dispositivos at the start: empty, or with a device that was switched off
DispositivosIniciales ==
    {<<>>,
     <<[id |-> "d1", uid_usuario |-> "ana", token_fcm |-> "t0", plataforma |-> "android",
        activo |-> FALSE, updatedAt |-> 0]>>}

InitDispositivos ==
    /\ citas = <<>>
    /\ ahora = Instante(30, 0)
    /\ ult = Llamada("init", "ok")
    /\ dispositivos \in DispositivosIniciales
    /\ notificaciones = <<>>
    /\ envios = <<>>
    /\ escenarios = <<>>
    /\ imagenes = {}
    /\ peticiones = <<>>

NextDispositivos ==
    \/ \E auth \in Callers, data \in DatosDispositivo : RegistrarDispositivo(auth, data)
    \/ \E t \in Reloj : Tick(t)

SpecDispositivos == InitDispositivos /\ [][NextDispositivos]_vars

\* C30: no two documents of Dispositivos have one id; a call of registrarDispositivo
\* that succeeds leaves exactly one document of the id it names, with the caller
\* (null without identity), the token and the platform of the call, activo true and
\* updatedAt now, and leaves every other document as it was; a call that fails
\* changes nothing; no call removes a document
C30_Upsert ==
    /\ \A i \in DOMAIN dispositivos, j \in DOMAIN dispositivos :
          dispositivos[i].id = dispositivos[j].id => i = j
    /\ \A auth \in Callers, data \in DatosDispositivo :
          LET r == RegistrarDispositivoCuerpo(auth, data)
              id == data.uid_dispositivo
              lugar == LugarDe(r.dispositivos, id)
          IN  IF r.code = "ok"
              THEN /\ Cardinality(lugar) = 1
                   /\ \A i \in lugar :
                         /\ r.dispositivos[i].uid_usuario =
                                IF auth = NoAuth THEN SinUsuario ELSE auth
                         /\ r.dispositivos[i].token_fcm = data.token_fcm
                         /\ r.dispositivos[i].plataforma = data.plataforma
                         /\ r.dispositivos[i].activo
                         /\ r.dispositivos[i].updatedAt = ahora
                   /\ Len(r.dispositivos) =
                          Len(dispositivos) + (IF LugarDe(dispositivos, id) = {} THEN 1 ELSE 0)
                   /\ \A i \in DOMAIN dispositivos :
                         dispositivos[i].id # id => r.dispositivos[i] = dispositivos[i]
              ELSE r.dispositivos = dispositivos

\* the device that was switched off has been registered again, without identity
\* and with another token, after a second device was registered
C30_Witness ==
    /\ ult = Llamada("registrarDispositivo", "ok")
    /\ Len(dispositivos) = 2
    /\ dispositivos[1] = [id |-> "d1", uid_usuario |-> SinUsuario, token_fcm |-> "t2",
                          plataforma |-> "ios", activo |-> TRUE, updatedAt |-> ahora]
    /\ dispositivos[2].id = "d2"
    /\ dispositivos[2].updatedAt < ahora

====
